---- MODULE Spec2Model ----
(***************************************************************************)
(* Model of the segregated block-pool allocator of pool_alloc.h (header    *)
(* and implementation in one file): pool_init, pool_malloc, pool_free over *)
(* a 65536-byte static heap with 3-byte in-band block headers.             *)
(*                                                                         *)
(* The heap is modelled byte by byte.  The static arrays are zero          *)
(* initialised by C; they are stored sparsely: a function whose domain is  *)
(* the set of indices holding a non-zero value (Rd / Wr below).            *)
(***************************************************************************)
EXTENDS Integers, Sequences, FiniteSets, TLC

VARIABLES
    g_pool_heap,            \* uint8_t  g_pool_heap[HEAP_SIZE]            (sparse)
    freelist_head_arr,      \* uint16_t freelist_head_arr[255]            (sparse)
    sorted_block_size_arr,  \* size_t   sorted_block_size_arr[255]        (sparse)
    block_size_count_var,   \* size_t   block_size_count_var
    g_pool_heap_start,      \* uint8_t* g_pool_heap_start: FALSE = NULL, TRUE = g_pool_heap
    last,                   \* the last call and what it returned: op; n, the bytes
                            \* asked of pool_malloc (for pool_free: asked when ptr
                            \* was allocated); ptr, the offset returned or freed;
                            \* ok, init returned true / malloc returned non-NULL;
                            \* refree, for a pool_malloc(n) that directly follows
                            \* pool_free(p) of a pointer got from pool_malloc(n): p
    init_args,              \* the arguments of the most recent pool_init call:
                            \* [null, count, sizes], sizes the multiset of the
                            \* first count elements of the array
    init_ok,                \* the most recent pool_init call returned true
    layout,                 \* partitions placed by the most recent pool_init call
    live,                   \* pointers callers hold and may free: records [ptr, n];
                            \* every pool_init call invalidates them (after a failed
                            \* one the allocator is unusable until a successful one)
    freed,                  \* pool_free was called since the last pool_init
    inits,                  \* number of pool_init calls made so far
    fresh                   \* a pristine allocator given the last successful pool_init
                            \* and every call since (reference for re-initialisation)

vars == <<g_pool_heap, freelist_head_arr, sorted_block_size_arr, block_size_count_var,
          g_pool_heap_start, last, init_args, init_ok, layout, live, freed, inits,
          fresh>>

----------------------------------------------------------------------------
(* Program constants *)

HEAP_SIZE == 65536
MAX_BLOCK_SIZE_COUNT == 255
METADATA_LENGTH == 3
UINT16_MAX == 65535

(* Bounds of the model *)

MaxClasses == 2      \* longest block_sizes array passed to pool_init
MaxInits == 2        \* pool_init calls in one run

\* Block sizes a caller passes in runs with pool_malloc and pool_free: zero,
\* a size that gives 3 blocks when alone, one whose stride exceeds half the
\* heap, and the smallest size that is too large.
SizeChoices == {0, 21842, 43687, HEAP_SIZE - METADATA_LENGTH + 1}

\* Byte counts a caller requests.
RequestChoices == {0, 21842, 43687, HEAP_SIZE - METADATA_LENGTH + 1}

----------------------------------------------------------------------------
(* Zero-initialised static storage, stored sparsely *)

Rd(a, i) == IF i \in DOMAIN a THEN a[i] ELSE 0

Wr(a, i, v) ==
    IF v = 0 THEN [x \in DOMAIN a \ {i} |-> a[x]]
    ELSE [x \in DOMAIN a \cup {i} |-> IF x = i THEN v ELSE a[x]]

Zeroed == [x \in {} |-> 0]

MAX(x, y) == IF x > y THEN x ELSE y

(* struct metadata, packed: uint16_t next_freelist_offset (host order:
   little endian), uint8_t partition_number *)

ReadNextFreelistOffset(heap, hdr) == Rd(heap, hdr) + 256 * Rd(heap, hdr + 1)

ReadPartitionNumber(heap, hdr) == Rd(heap, hdr + 2)

\* The bytes of a header holding next_freelist_offset = v (stored as
\* uint16_t) and partition_number = i (stored as uint8_t).
NextLowByte(v) == (v % 65536) % 256

NextHighByte(v) == (v % 65536) \div 256

\* Faulty variant: the class index stored one-based.
PartitionByte_OneBased(i) == (i + 1) % 256

PartitionByte(i) == i % 256

WriteNextFreelistOffset(heap, hdr, v) ==
    Wr(Wr(heap, hdr, NextLowByte(v)), hdr + 1, NextHighByte(v))

WritePartitionNumber(heap, hdr, i) == Wr(heap, hdr + 2, PartitionByte(i))

Globals == [heap  |-> g_pool_heap,
            heads |-> freelist_head_arr,
            sizes |-> sorted_block_size_arr,
            count |-> block_size_count_var,
            start |-> g_pool_heap_start]

ZeroGlobals == [heap |-> Zeroed, heads |-> Zeroed, sizes |-> Zeroed,
                count |-> 0, start |-> FALSE]

----------------------------------------------------------------------------
\* Faulty variant: the comparator of an ascending sort.
qsort_cmp_Ascending(a, b) == a - b

\* qsort_cmp: the int at b minus the int at a.  Every size of the model is
\* below 2^31, where the int read of a little-endian size_t is the value
\* itself and the subtraction cannot overflow.
qsort_cmp(a, b) == b - a

\* qsort(sorted_block_size_arr, count, sizeof(size_t), qsort_cmp): the
\* elements in an order where the comparator is never positive between
\* an element and a later one.
RECURSIVE qsort_insert(_, _)
qsort_insert(x, s) ==
    IF s = <<>> THEN <<x>>
    ELSE IF qsort_cmp(x, Head(s)) <= 0 THEN <<x>> \o s
    ELSE <<Head(s)>> \o qsort_insert(x, Tail(s))

RECURSIVE qsort(_)
qsort(s) == IF s = <<>> THEN <<>> ELSE qsort_insert(Head(s), qsort(Tail(s)))

\* for (j = 0; j < block_size_count; ++j) sorted_block_size_arr[j] = ...
RECURSIVE StoreSizes(_, _, _)
StoreSizes(arr, s, j) ==
    IF j > Len(s) THEN arr ELSE StoreSizes(Wr(arr, j - 1, s[j]), s, j + 1)

\* The first test of pool_init.
ArgsInvalid(args) ==
    args.count = 0 \/ args.null \/ args.count > MAX_BLOCK_SIZE_COUNT

\* Faulty variant: the largest size that fits is rejected too.
SizeInvalid_RejectsMax(block_size) ==
    block_size = 0 \/ HEAP_SIZE - METADATA_LENGTH <= block_size

\* The test on each block size inside the layout loop.
SizeInvalid(block_size) ==
    block_size = 0 \/ HEAP_SIZE - METADATA_LENGTH < block_size

\* Faulty variant: the equal share rounded up, not down, to whole blocks.
PartitionSize_RoundsUp(block_size, remaining_heap_size, classes_left) ==
    LET share == remaining_heap_size \div classes_left
        stride == block_size + METADATA_LENGTH
    IN MAX(stride, ((share + stride - 1) \div stride) * stride)

\* Faulty variant: the equal share itself, not rounded to whole blocks.
PartitionSize_EqualShare(block_size, remaining_heap_size, classes_left) ==
    LET share == remaining_heap_size \div classes_left
    IN MAX(block_size + METADATA_LENGTH, share)

\* partition_size = MAX(block_size + 3, share - share % (block_size + 3)),
\* share = remaining_heap_size / (block_size_count - i)
PartitionSize(block_size, remaining_heap_size, classes_left) ==
    LET share == remaining_heap_size \div classes_left
    IN MAX(block_size + METADATA_LENGTH,
           share - (share % (block_size + METADATA_LENGTH)))

\* Faulty variant: the successor is the next block's header, not its payload.
NextOffsetAtInit_HeaderOffset(idx, block_size, upper_bound_offset) ==
    LET ptr_next == idx + block_size + METADATA_LENGTH
    IN IF ptr_next < upper_bound_offset /\ ptr_next <= UINT16_MAX
       THEN ptr_next ELSE 0

\* Faulty variant: the list ends one block early (the test asks for room for a
\* further payload behind the successor's payload offset).
NextOffsetAtInit_DropsLast(idx, block_size, upper_bound_offset) ==
    LET ptr_next == idx + block_size + (2 * METADATA_LENGTH)
    IN IF ptr_next + block_size < upper_bound_offset /\ ptr_next <= UINT16_MAX
       THEN ptr_next ELSE 0

\* Faulty variant: the successor is tested against INT16_MAX.
NextOffsetAtInit_Signed16(idx, block_size, upper_bound_offset) ==
    LET ptr_next == idx + block_size + (2 * METADATA_LENGTH)
    IN IF ptr_next < upper_bound_offset /\ ptr_next <= 32767
       THEN ptr_next ELSE 0

\* The next_freelist_offset written into the header at idx.
NextOffsetAtInit(idx, block_size, upper_bound_offset) ==
    LET ptr_next == idx + block_size + (2 * METADATA_LENGTH)
    IN IF ptr_next < upper_bound_offset /\ ptr_next <= UINT16_MAX
       THEN ptr_next ELSE 0

\* Faulty variant: a header whose next_freelist_offset is 0 has only its partition
\* number written (the heap is taken to be zero already).
InsertMetadata_KeepsStaleNext(heap, partition_start_offset, upper_bound_offset, block_size, i) ==
    LET stride == block_size + METADATA_LENGTH
        last_k == (upper_bound_offset - partition_start_offset - 1) \div stride
        hdrs == {partition_start_offset + k * stride : k \in 0..last_k}
        Next(idx) == NextOffsetAtInit(idx, block_size, upper_bound_offset)
        Byte(a) ==
            LET idx == a - ((a - partition_start_offset) % stride)
            IN CASE a = idx -> NextLowByte(Next(idx))
                 [] a = idx + 1 -> NextHighByte(Next(idx))
                 [] OTHER -> PartitionByte(i)
        written == UNION {IF Next(idx) = 0 THEN {idx + 2} ELSE {idx, idx + 1, idx + 2}
                          : idx \in hdrs}
        zero == {a \in written : Byte(a) = 0}
    IN [a \in (DOMAIN heap \cup written) \ zero |->
            IF a \in written THEN Byte(a) ELSE heap[a]]

\* The loop that inserts metadata into the heap for one partition: a header
\* at every idx = partition_start_offset + k * (block_size + 3) below
\* upper_bound_offset.  Headers are 3 bytes and at least 4 bytes apart, so
\* the writes of the loop touch distinct bytes and are made at once here.
InsertMetadata(heap, partition_start_offset, upper_bound_offset, block_size, i) ==
    LET stride == block_size + METADATA_LENGTH
        last_k == (upper_bound_offset - partition_start_offset - 1) \div stride
        IdxOf(a) == a - ((a - partition_start_offset) % stride)
        Byte(a) ==
            LET idx == IdxOf(a)
                next == NextOffsetAtInit(idx, block_size, upper_bound_offset)
            IN CASE a = idx -> NextLowByte(next)
                 [] a = idx + 1 -> NextHighByte(next)
                 [] OTHER -> PartitionByte(i)
        IsWritten(a) ==
            /\ a >= partition_start_offset
            /\ a < partition_start_offset + (last_k + 1) * stride
            /\ a - IdxOf(a) < METADATA_LENGTH
        written == {partition_start_offset + (k * stride) + d :
                      k \in 0 .. last_k, d \in 0 .. (METADATA_LENGTH - 1)}
        nonzero == {a \in written : Byte(a) # 0}
        kept == {a \in DOMAIN heap : ~IsWritten(a)}
    IN [a \in kept \cup nonzero |-> IF IsWritten(a) THEN Byte(a) ELSE heap[a]]

\* Faulty variant: a partition that needs all the remaining bytes is refused.
RECURSIVE InitLoop_RefusesExactFit(_, _, _, _, _)
InitLoop_RefusesExactFit(i, g, remaining_heap_size, partition_start_offset, lay) ==
    IF i >= g.count THEN [g |-> g, ret |-> TRUE, layout |-> lay]
    ELSE
    LET block_size == Rd(g.sizes, i) IN
    IF SizeInvalid(block_size) THEN [g |-> g, ret |-> FALSE, layout |-> lay]
    ELSE
    LET partition_size == PartitionSize(block_size, remaining_heap_size, g.count - i) IN
    IF partition_size >= remaining_heap_size
    THEN [g |-> g, ret |-> FALSE, layout |-> lay]
    ELSE
    LET upper_bound_offset == partition_start_offset + partition_size
        g2 == [g EXCEPT
                 !.heads = Wr(g.heads, i, (partition_start_offset + METADATA_LENGTH) % 65536),
                 !.heap = InsertMetadata(g.heap, partition_start_offset,
                                         upper_bound_offset, block_size, i)]
    IN InitLoop_RefusesExactFit(i + 1, g2, HEAP_SIZE - upper_bound_offset, upper_bound_offset,
                Append(lay, [start |-> partition_start_offset,
                             bytes |-> partition_size,
                             block_size |-> block_size]))

\* Faulty variant: no test of the partition against the bytes that remain.
RECURSIVE InitLoop_NoCapacityTest(_, _, _, _, _)
InitLoop_NoCapacityTest(i, g, remaining_heap_size, partition_start_offset, lay) ==
    IF i >= g.count THEN [g |-> g, ret |-> TRUE, layout |-> lay]
    ELSE
    LET block_size == Rd(g.sizes, i) IN
    IF SizeInvalid(block_size) THEN [g |-> g, ret |-> FALSE, layout |-> lay]
    ELSE
    LET partition_size == PartitionSize(block_size, remaining_heap_size, g.count - i)
        upper_bound_offset == partition_start_offset + partition_size
        g2 == [g EXCEPT
                 !.heads = Wr(g.heads, i, (partition_start_offset + METADATA_LENGTH) % 65536),
                 !.heap = InsertMetadata(g.heap, partition_start_offset,
                                         upper_bound_offset, block_size, i)]
    IN InitLoop_NoCapacityTest(i + 1, g2, HEAP_SIZE - upper_bound_offset, upper_bound_offset,
                Append(lay, [start |-> partition_start_offset,
                             bytes |-> partition_size,
                             block_size |-> block_size]))

\* The layout loop of pool_init from class i on.  lay collects the
\* partitions placed so far: [start, bytes, block_size].
RECURSIVE InitLoop(_, _, _, _, _)
InitLoop(i, g, remaining_heap_size, partition_start_offset, lay) ==
    IF i >= g.count THEN [g |-> g, ret |-> TRUE, layout |-> lay]
    ELSE
    LET block_size == Rd(g.sizes, i) IN
    IF SizeInvalid(block_size) THEN [g |-> g, ret |-> FALSE, layout |-> lay]
    ELSE
    LET partition_size == PartitionSize(block_size, remaining_heap_size, g.count - i) IN
    IF partition_size > remaining_heap_size
    THEN [g |-> g, ret |-> FALSE, layout |-> lay]
    ELSE
    LET upper_bound_offset == partition_start_offset + partition_size
        g2 == [g EXCEPT
                 !.heads = Wr(g.heads, i, (partition_start_offset + METADATA_LENGTH) % 65536),
                 !.heap = InsertMetadata(g.heap, partition_start_offset,
                                         upper_bound_offset, block_size, i)]
    IN InitLoop(i + 1, g2, HEAP_SIZE - upper_bound_offset, upper_bound_offset,
                Append(lay, [start |-> partition_start_offset,
                             bytes |-> partition_size,
                             block_size |-> block_size]))

\* pool_init as a function of the static state and the arguments.
\* args = [null, arr, count]: block_sizes is NULL or points to arr.
pool_init_fn(g, args) ==
    IF ArgsInvalid(args) THEN [g |-> g, ret |-> FALSE, layout |-> <<>>]
    ELSE InitLoop(0,
                  [g EXCEPT !.count = args.count,
                            !.start = TRUE,
                            !.sizes = StoreSizes(g.sizes,
                                          qsort(SubSeq(args.arr, 1, args.count)), 1)],
                  HEAP_SIZE, 0, <<>>)

----------------------------------------------------------------------------
\* Faulty variant: the scan stops before class 0.
RECURSIVE FindPartition_SkipsClassZero(_, _, _)
FindPartition_SkipsClassZero(g, n, i) ==
    IF i < 1 THEN 0 - 1
    ELSE IF Rd(g.heads, i) # 0 /\ Rd(g.sizes, i) >= n THEN i
    ELSE FindPartition_SkipsClassZero(g, n, i - 1)

\* Faulty variant: the scan runs from class 0 up, largest size first.
RECURSIVE FindPartitionUp(_, _, _, _)
FindPartitionUp(g, n, j, i) ==
    IF j > i THEN 0 - 1
    ELSE IF Rd(g.heads, j) # 0 /\ Rd(g.sizes, j) >= n THEN j
    ELSE FindPartitionUp(g, n, j + 1, i)

FindPartition_LargestFirst(g, n, i) == FindPartitionUp(g, n, 0, i)

\* The scan of pool_malloc, from the smallest class i down to 0:
\* the first partition with a free block and block size >= n, or -1.
RECURSIVE FindPartition(_, _, _)
FindPartition(g, n, i) ==
    IF i < 0 THEN 0 - 1
    ELSE IF Rd(g.heads, i) # 0 /\ Rd(g.sizes, i) >= n THEN i
    ELSE FindPartition(g, n, i - 1)

\* The first test of pool_malloc.
RequestRejected(g, n) == n = 0 \/ n > Rd(g.sizes, 0)

\* Faulty variant: no test of n against the largest size and no test that a
\* partition was found (partition_num keeps its initial value 0).
pool_malloc_fn_Unguarded(g, n) ==
    IF n = 0 THEN [g |-> g, ok |-> FALSE, ptr |-> 0]
    ELSE
    LET found == FindPartition(g, n, g.count - 1)
        partition_num == IF found < 0 THEN 0 ELSE found
        freelist_head == Rd(g.heads, partition_num)
        header == freelist_head - METADATA_LENGTH
    IN [g |-> [g EXCEPT !.heads = Wr(g.heads, partition_num,
                                      ReadNextFreelistOffset(g.heap, header))],
        ok |-> TRUE,
        ptr |-> freelist_head]

\* Faulty variant: the header of the block handed out has its
\* next_freelist_offset cleared.
pool_malloc_fn_ClearsNext(g, n) ==
    IF RequestRejected(g, n) THEN [g |-> g, ok |-> FALSE, ptr |-> 0]
    ELSE
    LET partition_num == FindPartition(g, n, g.count - 1) IN
    IF partition_num < 0 THEN [g |-> g, ok |-> FALSE, ptr |-> 0]
    ELSE
    LET freelist_head == Rd(g.heads, partition_num)
        header == freelist_head - METADATA_LENGTH
    IN [g |-> [g EXCEPT !.heads = Wr(g.heads, partition_num,
                                      ReadNextFreelistOffset(g.heap, header)),
                        !.heap = WriteNextFreelistOffset(g.heap, header, 0)],
        ok |-> TRUE,
        ptr |-> freelist_head]

\* Faulty variant: the pointer returned is the block's header, not its payload.
pool_malloc_fn_ReturnsHeader(g, n) ==
    IF RequestRejected(g, n) THEN [g |-> g, ok |-> FALSE, ptr |-> 0]
    ELSE
    LET partition_num == FindPartition(g, n, g.count - 1) IN
    IF partition_num < 0 THEN [g |-> g, ok |-> FALSE, ptr |-> 0]
    ELSE
    LET freelist_head == Rd(g.heads, partition_num)
        header == freelist_head - METADATA_LENGTH
    IN [g |-> [g EXCEPT !.heads = Wr(g.heads, partition_num,
                                      ReadNextFreelistOffset(g.heap, header))],
        ok |-> TRUE,
        ptr |-> header]

\* pool_malloc as a function: [g, ok, ptr]; ok = FALSE is a NULL return,
\* ptr is the offset of the returned pointer from g_pool_heap_start.
pool_malloc_fn(g, n) ==
    IF RequestRejected(g, n) THEN [g |-> g, ok |-> FALSE, ptr |-> 0]
    ELSE
    LET partition_num == FindPartition(g, n, g.count - 1) IN
    IF partition_num < 0 THEN [g |-> g, ok |-> FALSE, ptr |-> 0]
    ELSE
    LET freelist_head == Rd(g.heads, partition_num)
        header == freelist_head - METADATA_LENGTH
    IN [g |-> [g EXCEPT !.heads = Wr(g.heads, partition_num,
                                      ReadNextFreelistOffset(g.heap, header))],
        ok |-> TRUE,
        ptr |-> freelist_head]

\* Faulty variant: the freed block's header is not linked to the old head.
pool_free_fn_DropsRest(g, ptr) ==
    LET header == ptr - METADATA_LENGTH
        partition_num == ReadPartitionNumber(g.heap, header)
    IN [g EXCEPT
          !.heap = WriteNextFreelistOffset(g.heap, header, 0),
          !.heads = Wr(g.heads, partition_num, ptr % 65536)]

\* Faulty variant: the head is set to the header's offset, not the payload's.
pool_free_fn_HeadAtHeader(g, ptr) ==
    LET header == ptr - METADATA_LENGTH
        partition_num == ReadPartitionNumber(g.heap, header)
    IN [g EXCEPT
          !.heap = WriteNextFreelistOffset(g.heap, header, Rd(g.heads, partition_num)),
          !.heads = Wr(g.heads, partition_num, header % 65536)]

\* Faulty variant: the block is pushed onto the list of class 0, whatever its
\* header says.
pool_free_fn_OntoClassZero(g, ptr) ==
    LET header == ptr - METADATA_LENGTH
    IN [g EXCEPT
          !.heap = WriteNextFreelistOffset(g.heap, header, Rd(g.heads, 0)),
          !.heads = Wr(g.heads, 0, ptr % 65536)]

\* pool_free as a function of the static state and the pointer's offset.
pool_free_fn(g, ptr) ==
    LET header == ptr - METADATA_LENGTH
        partition_num == ReadPartitionNumber(g.heap, header)
    IN [g EXCEPT
          !.heap = WriteNextFreelistOffset(g.heap, header, Rd(g.heads, partition_num)),
          !.heads = Wr(g.heads, partition_num, ptr % 65536)]

----------------------------------------------------------------------------
(* The calls *)

Arrays == UNION {[1..k -> SizeChoices] : k \in 1..MaxClasses}

\* Arguments of pool_init: an array with its length, NULL, a zero count,
\* and a count above the limit (the array is not read then).
InitArgs ==
    {[null |-> FALSE, arr |-> a, count |-> Len(a)] : a \in Arrays}
    \cup {[null |-> TRUE, arr |-> <<>>, count |-> c] : c \in {0, 1}}
    \cup {[null |-> FALSE, arr |-> <<1>>, count |-> c] : c \in {0, MAX_BLOCK_SIZE_COUNT + 1}}

\* The multiset of the first count elements of arr (of those it has):
\* size -> number of occurrences.
ArgSizes(arr, count) ==
    LET idx == {j \in 1..Len(arr) : j <= count}
    IN [v \in {arr[j] : j \in idx} |-> Cardinality({j \in idx : arr[j] = v})]

SetGlobals(g) ==
    /\ g_pool_heap' = g.heap
    /\ freelist_head_arr' = g.heads
    /\ sorted_block_size_arr' = g.sizes
    /\ block_size_count_var' = g.count
    /\ g_pool_heap_start' = g.start

NoCall == [g |-> ZeroGlobals, ok |-> FALSE, ptr |-> 0]

Init ==
    /\ g_pool_heap = Zeroed
    /\ freelist_head_arr = Zeroed
    /\ sorted_block_size_arr = Zeroed
    /\ block_size_count_var = 0
    /\ g_pool_heap_start = FALSE
    /\ last = [op |-> "none", n |-> 0, ptr |-> 0, ok |-> FALSE, refree |-> 0]
    /\ init_args = [null |-> TRUE, count |-> 0, sizes |-> ArgSizes(<<>>, 0)]
    /\ init_ok = FALSE
    /\ layout = <<>>
    /\ live = {}
    /\ freed = FALSE
    /\ inits = 0
    /\ fresh = NoCall

pool_init(args) ==
    LET r == pool_init_fn(Globals, args) IN
    /\ inits' = inits + 1
    /\ SetGlobals(r.g)
    /\ last' = [op |-> "init", n |-> 0, ptr |-> 0, ok |-> r.ret, refree |-> 0]
    /\ init_args' = [null |-> args.null, count |-> args.count,
                     sizes |-> ArgSizes(args.arr, args.count)]
    /\ init_ok' = r.ret
    /\ layout' = r.layout
    /\ live' = {}
    /\ freed' = FALSE
    /\ fresh' = IF r.ret
                THEN [g |-> pool_init_fn(ZeroGlobals, args).g,
                      ok |-> pool_init_fn(ZeroGlobals, args).ret, ptr |-> 0]
                ELSE NoCall

pool_malloc(n) ==
    LET r == pool_malloc_fn(Globals, n) IN
    /\ SetGlobals(r.g)
    /\ last' = [op |-> "malloc", n |-> n, ptr |-> r.ptr, ok |-> r.ok,
                refree |-> IF last.op = "free" /\ last.n = n THEN last.ptr ELSE 0]
    /\ live' = IF r.ok /\ init_ok THEN live \cup {[ptr |-> r.ptr, n |-> n]} ELSE live
    /\ fresh' = IF init_ok THEN pool_malloc_fn(fresh.g, n) ELSE fresh
    /\ UNCHANGED <<init_args, init_ok, layout, freed, inits>>

\* Contract: pool_init succeeded, ptr was returned by pool_malloc and has
\* not been freed since.
pool_free(l) ==
    /\ init_ok
    /\ SetGlobals(pool_free_fn(Globals, l.ptr))
    /\ last' = [op |-> "free", n |-> l.n, ptr |-> l.ptr, ok |-> TRUE, refree |-> 0]
    /\ live' = live \ {l}
    /\ freed' = TRUE
    /\ fresh' = [g |-> pool_free_fn(fresh.g, l.ptr), ok |-> TRUE, ptr |-> l.ptr]
    /\ UNCHANGED <<init_args, init_ok, layout, inits>>

Next ==
    \/ \E args \in InitArgs : inits < MaxInits /\ pool_init(args)
    \/ \E n \in RequestChoices : pool_malloc(n)
    \/ \E l \in live : pool_free(l)

Spec == Init /\ [][Next]_vars

\* pool_init alone, once, over a wider choice of block sizes.
WideSizeChoices == {0, 509, 5000, 16381, 21842, 29500, 30000, 32765, 35300, 40000,
                    43687, 65529, HEAP_SIZE - METADATA_LENGTH,
                    HEAP_SIZE - METADATA_LENGTH + 1}

WideArrays == UNION {[1..k -> WideSizeChoices] : k \in 1..MaxClasses}

WideInitArgs ==
    {[null |-> FALSE, arr |-> a, count |-> Len(a)] : a \in WideArrays}
    \cup {[null |-> TRUE, arr |-> <<>>, count |-> c] : c \in {0, 1}}
    \cup {[null |-> FALSE, arr |-> <<1>>, count |-> c] : c \in {0, MAX_BLOCK_SIZE_COUNT + 1}}

NextLayout == \E args \in WideInitArgs : inits = 0 /\ pool_init(args)

SpecLayout == Init /\ [][NextLayout]_vars

----------------------------------------------------------------------------
(* The partitions as pool_init placed them, read from layout *)

Classes == 0 .. (Len(layout) - 1)

ClassSize(i) == Rd(sorted_block_size_arr, i)

FreeHead(i) == Rd(freelist_head_arr, i)

Stride(i) == layout[i + 1].block_size + METADATA_LENGTH

NumBlocks(i) == layout[i + 1].bytes \div Stride(i)

\* Payload offsets of the blocks laid out for class i.
Blocks(i) ==
    {layout[i + 1].start + k * Stride(i) + METADATA_LENGTH : k \in 0 .. (NumBlocks(i) - 1)}

\* The classes whose offset range holds the block with payload offset p.
ClassesOf(p) ==
    {i \in Classes : /\ layout[i + 1].start <= p - METADATA_LENGTH
                     /\ p - METADATA_LENGTH < layout[i + 1].start + layout[i + 1].bytes}

LivePtrs == {l.ptr : l \in live}

TotalBlocks == Cardinality(UNION {Blocks(i) : i \in Classes})

\* The free list of class i: the payload offsets from the head on, following
\* next_freelist_offset; a 0 entry marks a chain longer than fuel.
RECURSIVE ChainFrom(_, _)
ChainFrom(off, fuel) ==
    IF off = 0 THEN <<>>
    ELSE IF fuel = 0 THEN <<0>>
    ELSE <<off>> \o ChainFrom(ReadNextFreelistOffset(g_pool_heap, off - METADATA_LENGTH),
                              fuel - 1)

Chain(i) == ChainFrom(FreeHead(i), TotalBlocks + 1)

ChainSet(i) == {Chain(i)[k] : k \in 1 .. Len(Chain(i))}

\* Classes that could serve a request of n bytes now.
Serving(n) == {i \in Classes : ClassSize(i) >= n /\ FreeHead(i) # 0}

----------------------------------------------------------------------------
\* C1: after a successful pool_init, pool_malloc(n) returns NULL exactly when
\* n is 0, n exceeds the size of class 0, or every class of size >= n has an
\* empty free list at the time of the call.
C1_NullIffNothingFits ==
    [][(init_ok /\ last'.op = "malloc") =>
         (~last'.ok <=> (\/ last'.n = 0
                         \/ last'.n > ClassSize(0)
                         \/ Serving(last'.n) = {}))]_vars

\* A request within the largest class size was refused for exhaustion, with
\* another class still holding free blocks.
C1_Witness ==
    /\ init_ok /\ last.op = "malloc" /\ ~last.ok
    /\ last.n >= 1 /\ last.n <= ClassSize(0)
    /\ \E i \in Classes : FreeHead(i) # 0

\* C2: a non-NULL pool_malloc(n) returns a block of a class of size >= n, and
\* no class that was non-empty and fitted n at the call has a smaller size.
C2_FitDiscipline ==
    [][(init_ok /\ last'.op = "malloc" /\ last'.ok) =>
         /\ ClassesOf(last'.ptr) # {}
         /\ \A c \in ClassesOf(last'.ptr) :
               /\ ClassSize(c) >= last'.n
               /\ c \in Serving(last'.n)
               /\ \A i \in Serving(last'.n) : ClassSize(i) >= ClassSize(c)]_vars

\* A request was served by spill: from a class larger than another class
\* that also fits the request (and was empty).
C2_Witness ==
    /\ init_ok /\ last.op = "malloc" /\ last.ok
    /\ \E c \in ClassesOf(last.ptr) : \E j \in Classes :
          ClassSize(j) >= last.n /\ ClassSize(j) < ClassSize(c)

\* C3: no block is handed out while it is live, and two live pointers p < q
\* are at least the stride of p's class apart, so live blocks never overlap.
C3_NoOverlap ==
    [][/\ (init_ok /\ last'.op = "malloc" /\ last'.ok) => last'.ptr \notin LivePtrs
       /\ init_ok' =>
            \A p \in LivePtrs' : \A q \in LivePtrs' :
               p < q => \A c \in ClassesOf(p)' : q - p >= Stride(c)']_vars

\* Every block of a layout with at least three blocks is live at once.
C3_Witness ==
    /\ init_ok /\ Cardinality(LivePtrs) >= 3
    /\ LivePtrs = UNION {Blocks(i) : i \in Classes}

\* C4: for every class the free list is finite, holds each free block of the
\* class exactly once and no allocated block, and with the class's live
\* blocks makes up exactly the blocks laid out for it at init.
C4_BlockConservation ==
    init_ok =>
        /\ LivePtrs \subseteq UNION {Blocks(i) : i \in Classes}
        /\ \A i \in Classes :
              /\ 0 \notin ChainSet(i)
              /\ Cardinality(ChainSet(i)) = Len(Chain(i))
              /\ ChainSet(i) = Blocks(i) \ LivePtrs
              /\ ChainSet(i) \cup (LivePtrs \cap Blocks(i)) = Blocks(i)

\* All blocks of a class of three were allocated, freed in the order they
\* were handed out (the headers still show the reversed list: the first
\* block was freed onto an empty list, the third onto the second) and have
\* all been allocated once more.
C4_Witness ==
    /\ init_ok /\ freed /\ last.op = "malloc" /\ last.ok
    /\ \E i \in Classes :
          /\ NumBlocks(i) = 3
          /\ Blocks(i) \subseteq LivePtrs
          /\ last.ptr = layout[i + 1].start + METADATA_LENGTH
          /\ ReadNextFreelistOffset(g_pool_heap, layout[i + 1].start) = 0
          /\ ReadNextFreelistOffset(g_pool_heap, layout[i + 1].start + 2 * Stride(i))
                = layout[i + 1].start + Stride(i) + METADATA_LENGTH

\* C5 as stated: a pool_malloc(n) that directly follows pool_free(p), p got
\* from pool_malloc(n), returns p.
C5_RecycleAlways ==
    (init_ok /\ last.op = "malloc" /\ last.refree # 0) =>
        (last.ok /\ last.ptr = last.refree)

\* C5 amended: it returns p when p's class is the class the scan selects
\* for n after the free, that is when no class of a higher index that fits
\* n has a free block.
C5_RecycleWhenSelected ==
    [][(/\ init_ok /\ last.op = "free" /\ last'.op = "malloc" /\ last'.n = last.n
        /\ \A c \in ClassesOf(last.ptr) : \A j \in Serving(last.n) : j <= c)
       => (last'.ok /\ last'.ptr = last.ptr)]_vars

\* A pointer handed out by spill from a larger class was freed and came
\* back at once for the same request.
C5_Witness ==
    /\ init_ok /\ last.op = "malloc" /\ last.ok
    /\ last.refree # 0 /\ last.ptr = last.refree
    /\ \E c \in ClassesOf(last.ptr) : ClassSize(c) > last.n

\* Runs with nothing but successful pool_malloc(n) calls of one n since
\* the last pool_init (refused calls change nothing), now refused.
ExhaustedBy(n) ==
    /\ init_ok /\ ~freed
    /\ last.op = "malloc" /\ ~last.ok /\ last.n = n
    /\ \A l \in live : l.n = n

\* C6 as stated: pool_malloc(class_size[i]) alone succeeds as many times as
\* class i has blocks.
C6_ExhaustionOfOneClass ==
    \A i \in Classes :
        ExhaustedBy(ClassSize(i)) => Cardinality(live) = NumBlocks(i)

\* C6 amended: it succeeds as many times as there are blocks in all the
\* classes of size >= class_size[i].
C6_ExhaustionOfFittingClasses ==
    \A i \in Classes :
        ExhaustedBy(ClassSize(i)) =>
            Cardinality(live) =
                Cardinality(UNION {Blocks(j) : j \in {k \in Classes : ClassSize(k) >= ClassSize(i)}})

\* The smaller of two classes was asked for until NULL: more calls succeeded
\* than that class has blocks.
C6_Witness ==
    \E i \in Classes :
        /\ ExhaustedBy(ClassSize(i))
        /\ NumBlocks(i) >= 2
        /\ Cardinality(live) > NumBlocks(i)

----------------------------------------------------------------------------
(* The layout rule as the specification states it, on the sizes passed *)

\* The sizes of a multiset, largest first.
RECURSIVE Descending(_)
Descending(b) ==
    IF DOMAIN b = {} THEN <<>>
    ELSE LET m == CHOOSE x \in DOMAIN b : \A y \in DOMAIN b : y <= x
         IN <<m>> \o Descending(IF b[m] = 1 THEN [x \in DOMAIN b \ {m} |-> b[x]]
                                ELSE [b EXCEPT ![m] = b[m] - 1])

\* Walking the classes in order, class k never needs more than remains.
RECURSIVE LayoutFits(_, _, _)
LayoutFits(sizes, k, remaining) ==
    IF k > Len(sizes) THEN TRUE
    ELSE LET E == remaining \div (Len(sizes) - k + 1)
             T == sizes[k] + 3
             P == IF T > E - (E % T) THEN T ELSE E - (E % T)
         IN P <= remaining /\ LayoutFits(sizes, k + 1, remaining - P)

RECURSIVE SumOfStrides(_, _)
SumOfStrides(sizes, k) ==
    IF k > Len(sizes) THEN 0 ELSE sizes[k] + 3 + SumOfStrides(sizes, k + 1)

\* The arguments of the last pool_init pass validation.
ArgsPassValidation ==
    /\ ~init_args.null
    /\ 1 <= init_args.count /\ init_args.count <= 255
    /\ \A sz \in DOMAIN init_args.sizes : 1 <= sz /\ sz <= HEAP_SIZE - 3

\* C7: pool_init returns true exactly when sizes is non-null, the count is
\* in 1..255, every size is in 1..HEAP_SIZE-3 and the layout rule never needs
\* more bytes for a class than remain.
C7_InitSucceedsIff ==
    last.op = "init" =>
        (last.ok <=> (/\ ArgsPassValidation
                      /\ LayoutFits(Descending(init_args.sizes), 1, HEAP_SIZE)))

\* A single class of size HEAP_SIZE - 3 was accepted.
C7_Witness ==
    /\ last.op = "init" /\ last.ok
    /\ init_args.count = 1 /\ DOMAIN init_args.sizes = {HEAP_SIZE - 3}

\* C8: with arguments that pass validation pool_init returns true exactly
\* when the strides (size + 3) of all classes together fit the heap.
C8_InitFitsIffSumFits ==
    (last.op = "init" /\ ArgsPassValidation) =>
        (last.ok <=> SumOfStrides(Descending(init_args.sizes), 1) <= HEAP_SIZE)

\* Two classes were placed although the first one's stride exceeds its
\* equal share of the heap.
C8_Witness ==
    /\ last.op = "init" /\ last.ok /\ Len(layout) = 2
    /\ layout[1].bytes > HEAP_SIZE \div 2

\* C9: after a pool_init that returns true, whatever came before, every
\* call returns what it returns on a pristine allocator given the same
\* pool_init and the same calls.
C9_ReinitIsFreshStart ==
    init_ok => (last.ok = fresh.ok /\ last.ptr = fresh.ptr)

\* A block is handed out after a re-initialisation to one class that follows
\* a two-class layout, on a heap that still holds bytes of the earlier use.
C9_Witness ==
    /\ init_ok /\ inits >= 2 /\ last.op = "malloc" /\ last.ok
    /\ block_size_count_var = 1 /\ Rd(sorted_block_size_arr, 1) # 0
    /\ g_pool_heap # fresh.g.heap

\* C10: every block's header holds the index of the class whose range
\* contains it, at all times, and pool_free(p) makes p the head of the free
\* list of that class.
C10_ClassTagStable ==
    init_ok =>
        /\ \A i \in Classes : \A b \in Blocks(i) :
              ReadPartitionNumber(g_pool_heap, b - METADATA_LENGTH) = i
        /\ last.op = "free" =>
              \A c \in ClassesOf(last.ptr) : FreeHead(c) = last.ptr

\* A block handed out by spill (its class is larger than another class that
\* fits the request) has been freed.
C10_Witness ==
    /\ init_ok /\ last.op = "free"
    /\ \E c \in ClassesOf(last.ptr) : \E j \in Classes :
          /\ ClassSize(j) >= last.n /\ ClassSize(j) < ClassSize(c)
          /\ FreeHead(c) = last.ptr

----------------------------------------------------------------------------
\* C11: a pool_init call that returns false leaves the class count, the class
\* sizes, the free-list heads and the heap headers as they were before the
\* call.
C11_FailedInitChangesNothing ==
    [][(last'.op = "init" /\ ~last'.ok) =>
         /\ block_size_count_var' = block_size_count_var
         /\ sorted_block_size_arr' = sorted_block_size_arr
         /\ freelist_head_arr' = freelist_head_arr
         /\ g_pool_heap' = g_pool_heap]_vars

----------------------------------------------------------------------------
(* One pool_init on the zero-initialised allocator, then pool_malloc(1)
   over and over *)

\* The block sizes of the repository's tests of capacity: one class of 16384
\* blocks and one of 128; then two classes of one size, and a class larger
\* than its equal share before a class of size 1.
CapacityArrays == {<<1>>, <<509>>, <<509, 509>>, <<53360, 1>>}

CapacityInitArgs == {[null |-> FALSE, arr |-> a, count |-> Len(a)] : a \in CapacityArrays}

NextCapacity ==
    \/ \E args \in CapacityInitArgs : inits = 0 /\ pool_init(args)
    \/ pool_malloc(1)

SpecCapacity == Init /\ [][NextCapacity]_vars

\* Blocks laid out over all classes: partition bytes / (class size + 3).
RECURSIVE LaidOutBlocks(_)
LaidOutBlocks(k) ==
    IF k > Len(layout) THEN 0
    ELSE (layout[k].bytes \div (layout[k].block_size + METADATA_LENGTH)) + LaidOutBlocks(k + 1)

\* C12: after a pool_init that returned true on the zero-initialised
\* allocator, a pool_malloc(1) returns non-NULL exactly while fewer calls
\* have succeeded than blocks were laid out over all classes; a single class
\* of size s has HEAP_SIZE / (s + 3) blocks.
C12_TotalCapacity ==
    [][(init_ok /\ last'.op = "malloc") =>
         /\ last'.ok <=> Cardinality(live) < LaidOutBlocks(1)
         /\ Len(layout) = 1 =>
               LaidOutBlocks(1) = HEAP_SIZE \div (ClassSize(0) + METADATA_LENGTH)]_vars

\* Two classes of size 509 were asked for one byte until NULL: 64 + 64
\* calls succeeded.
C12_Witness ==
    /\ init_ok /\ last.op = "malloc" /\ ~last.ok /\ last.n = 1
    /\ Len(layout) = 2 /\ ClassSize(0) = 509 /\ ClassSize(1) = 509
    /\ Cardinality(live) = 128

----------------------------------------------------------------------------
\* C13: for every class i, head[i] is 0 exactly when all blocks of the class
\* are allocated, and the head and every next_freelist_offset reached from it
\* is the payload offset of a block laid out in partition i.
C13_FreeListWellFormed ==
    init_ok =>
        \A i \in Classes :
            /\ FreeHead(i) = 0 <=> Blocks(i) \subseteq LivePtrs
            /\ \A k \in 1 .. Len(Chain(i)) :
                  /\ Chain(i)[k] \in Blocks(i)
                  /\ Chain(i)[k] - METADATA_LENGTH >= layout[i + 1].start
                  /\ Chain(i)[k] + layout[i + 1].block_size
                        <= layout[i + 1].start + layout[i + 1].bytes

\* One class is exhausted while another, next to it, holds a list of two
\* blocks that pool_free has put in descending order of address.
C13_Witness ==
    /\ init_ok /\ freed
    /\ \E i \in Classes : \E j \in Classes :
          /\ i # j /\ FreeHead(i) = 0
          /\ Len(Chain(j)) = 2 /\ Chain(j)[1] > Chain(j)[2]

----------------------------------------------------------------------------
(* One pool_init on the zero-initialised allocator over the block sizes of
   the repository's tests of addresses, then pool_malloc(1) over and over *)

AddressArrays == {<<8, 4>>, <<53360, 1>>, <<65529, 1>>, <<509, 509>>}

AddressInitArgs == {[null |-> FALSE, arr |-> a, count |-> Len(a)] : a \in AddressArrays}

NextAddresses ==
    \/ \E args \in AddressInitArgs : inits = 0 /\ pool_init(args)
    \/ pool_malloc(1)

SpecAddresses == Init /\ [][NextAddresses]_vars

\* start_i: the partition bytes of classes 0 .. i-1 together.
RECURSIVE BytesBefore(_)
BytesBefore(i) == IF i = 0 THEN 0 ELSE layout[i].bytes + BytesBefore(i - 1)

\* The class pool_malloc(n) is served by: of the classes with a free block
\* and size >= n, the one of the highest index.
ServedBy(n) == CHOOSE i \in Serving(n) : \A j \in Serving(n) : j <= i

\* The pointers handed out and not freed that lie in the bytes of class i.
HandedOutOf(i) ==
    LET lo == BytesBefore(i)
        hi == lo + layout[i + 1].bytes
    IN {l \in live : lo <= l.ptr /\ l.ptr < hi}

\* C14: with no pool_free since pool_init returned true, the k-th allocation
\* served by class i returns start_i + 3 + (k - 1) * (class_size[i] + 3),
\* start_i being the partition bytes of classes 0 .. i-1 together.
C14_AscendingFromPartitionStart ==
    [][(init_ok /\ ~freed /\ last'.op = "malloc" /\ last'.ok) =>
         /\ Serving(last'.n) # {}
         /\ LET i == ServedBy(last'.n)
            IN last'.ptr = BytesBefore(i) + METADATA_LENGTH
                           + Cardinality(HandedOutOf(i)) * (ClassSize(i) + METADATA_LENGTH)]_vars

\* The second block of a class of size 1 that follows a class of size 53360
\* was handed out at offset 53363 + 3 + 4.
C14_Witness ==
    /\ init_ok /\ ~freed /\ last.op = "malloc" /\ last.ok
    /\ Len(layout) = 2 /\ ClassSize(0) = 53360 /\ ClassSize(1) = 1
    /\ last.ptr = 53370

----------------------------------------------------------------------------
\* The end of the last partition.
LayoutEnd == layout[Len(layout)].start + layout[Len(layout)].bytes

\* C15: after a successful pool_init the partitions tile the heap from
\* offset 0 without gap or overlap; partition i is a whole number, at least
\* one, of blocks of stride class_size[i] + 3, of byte length max(T, E - E mod T)
\* with E = remaining / (N - i); the last partition ends at or before
\* HEAP_SIZE and the tail behind it is shorter than the last class's stride.
\* Each block of a partition has a header that names the class and the block
\* behind it, the last block a header that ends the list.
C15_LayoutTiling ==
    (last.op = "init" /\ last.ok) =>
        /\ Len(layout) = block_size_count_var
        /\ layout[1].start = 0
        /\ \A i \in Classes :
              LET T == ClassSize(i) + METADATA_LENGTH
                  E == (HEAP_SIZE - layout[i + 1].start) \div (block_size_count_var - i)
              IN /\ layout[i + 1].block_size = ClassSize(i)
                 /\ FreeHead(i) = layout[i + 1].start + METADATA_LENGTH
                 /\ \A b \in Blocks(i) :
                       /\ ReadPartitionNumber(g_pool_heap, b - METADATA_LENGTH) = i
                       /\ ReadNextFreelistOffset(g_pool_heap, b - METADATA_LENGTH)
                             = IF b + T \in Blocks(i) THEN b + T ELSE 0
                 /\ layout[i + 1].bytes % T = 0
                 /\ layout[i + 1].bytes >= T
                 /\ layout[i + 1].bytes = IF T > E - (E % T) THEN T ELSE E - (E % T)
                 /\ i > 0 => layout[i + 1].start = layout[i].start + layout[i].bytes
        /\ LayoutEnd <= HEAP_SIZE
        /\ HEAP_SIZE - LayoutEnd < ClassSize(block_size_count_var - 1) + METADATA_LENGTH

\* Two classes of several blocks each were placed and bytes are left over
\* behind the second.
C15_Witness ==
    /\ last.op = "init" /\ last.ok /\ Len(layout) = 2
    /\ NumBlocks(0) >= 2 /\ NumBlocks(1) >= 2
    /\ layout[2].start > 0
    /\ LayoutEnd < HEAP_SIZE

----------------------------------------------------------------------------
\* C16: after a successful pool_init(sizes, count) the class-size table holds
\* the caller's sizes, each as often as the caller gave it, in an order where
\* the size never increases with the class index; pool_malloc and pool_free
\* leave the table and the count as they are.
C16_SizesSortedDescending ==
    init_ok =>
        /\ block_size_count_var = init_args.count
        /\ \A v \in {ClassSize(i) : i \in 0 .. (block_size_count_var - 1)} \cup DOMAIN init_args.sizes :
              Cardinality({i \in 0 .. (block_size_count_var - 1) : ClassSize(i) = v})
                 = (IF v \in DOMAIN init_args.sizes THEN init_args.sizes[v] ELSE 0)
        /\ \A i \in 0 .. (block_size_count_var - 2) : ClassSize(i) >= ClassSize(i + 1)

\* Blocks of a table of two different sizes have been handed out and freed.
C16_Witness ==
    /\ init_ok /\ freed /\ last.op = "malloc" /\ last.ok
    /\ block_size_count_var = 2
    /\ ClassSize(0) = 43687 /\ ClassSize(1) = 21842

----------------------------------------------------------------------------
\* The last pool_init returned false at the test 'partition_size >
\* remaining_heap_size': its arguments pass validation.
CapacityFailure == last.op = "init" /\ ~last.ok /\ ArgsPassValidation

\* C17 as stated: a capacity failure occurs at class 0 only, never after a
\* class has been placed.
C17_CapacityFailureOnlyAtClassZero ==
    CapacityFailure => Len(layout) = 0

\* C17 amended: class 0 always passes the test; a capacity failure occurs at
\* a class i > 0, after the larger classes have been placed, and there the
\* stride of one block of class i exceeds the bytes that remain; every class
\* that was placed had room for one block.
C17_CapacityFailureBehindPlacedClasses ==
    /\ CapacityFailure =>
          /\ Len(layout) >= 1
          /\ Len(layout) < block_size_count_var
          /\ ClassSize(Len(layout)) + METADATA_LENGTH > HEAP_SIZE - LayoutEnd
          /\ ClassSize(Len(layout)) + METADATA_LENGTH
                > (HEAP_SIZE - LayoutEnd) \div (block_size_count_var - Len(layout))
    /\ (last.op = "init" /\ last.ok) =>
          \A i \in Classes :
              ClassSize(i) + METADATA_LENGTH <= HEAP_SIZE - layout[i + 1].start

\* A smaller class failed the test after a larger one had been placed.
C17_Witness ==
    /\ CapacityFailure
    /\ Len(layout) = 1 /\ block_size_count_var = 2
    /\ ClassSize(1) < ClassSize(0)
    /\ FreeHead(0) = METADATA_LENGTH

----------------------------------------------------------------------------
\* The heap bytes at the offsets of S are the same before and after the step.
SameBytesOutside(S) ==
    \A a \in (DOMAIN g_pool_heap \cup DOMAIN g_pool_heap') \ S :
        Rd(g_pool_heap', a) = Rd(g_pool_heap, a)

\* The free-list heads of all classes but those of S are the same before and
\* after the step.
SameHeadsOutside(S) ==
    \A j \in (DOMAIN freelist_head_arr \cup DOMAIN freelist_head_arr') \ S :
        Rd(freelist_head_arr', j) = Rd(freelist_head_arr, j)

\* C18: pool_malloc changes no heap byte, at most the head of the class it
\* takes the block from, and nothing when it returns NULL; pool_free(p)
\* changes only the two bytes of next_freelist_offset in p's header and the
\* head of the class p's header names; neither changes the class count, the
\* class sizes or a partition number.
C18_FrameConditions ==
    [][/\ last'.op \in {"malloc", "free"} =>
            /\ block_size_count_var' = block_size_count_var
            /\ sorted_block_size_arr' = sorted_block_size_arr
            /\ g_pool_heap_start' = g_pool_heap_start
       /\ last'.op = "malloc" =>
            /\ g_pool_heap' = g_pool_heap
            /\ ~last'.ok => freelist_head_arr' = freelist_head_arr
            /\ (init_ok /\ last'.ok) => SameHeadsOutside(ClassesOf(last'.ptr))
       /\ (init_ok /\ last'.op = "free") =>
            LET hdr == last'.ptr - METADATA_LENGTH
            IN /\ SameBytesOutside({hdr, hdr + 1})
               /\ SameHeadsOutside({ReadPartitionNumber(g_pool_heap, hdr)})
               /\ \A i \in Classes : \A b \in Blocks(i) :
                     ReadPartitionNumber(g_pool_heap', b - METADATA_LENGTH)
                        = ReadPartitionNumber(g_pool_heap, b - METADATA_LENGTH)]_vars

\* After frees, a block has been handed out while the header of a block
\* that is still allocated names another allocated block as its successor.
C18_Witness ==
    /\ init_ok /\ freed /\ last.op = "malloc" /\ last.ok
    /\ \E l \in live : \E m \in live :
          /\ l.ptr # last.ptr /\ m.ptr # l.ptr
          /\ ReadNextFreelistOffset(g_pool_heap, l.ptr - METADATA_LENGTH) = m.ptr

----------------------------------------------------------------------------
(* Layouts whose blocks reach the end of the heap, with pool_malloc,
   pool_free and re-initialisation *)

\* A last block of one byte at offset HEAP_SIZE - 1 (the test
\* malloc_start_and_end_of_heap), one block that fills the heap (malloc_max_size),
\* two blocks that fill the heap but for one byte, and two blocks of which
\* only one fits.
EdgeArrays == {<<65529, 1>>, <<65533>>, <<32765, 32764>>, <<65533, 65533>>}

EdgeInitArgs == {[null |-> FALSE, arr |-> a, count |-> Len(a)] : a \in EdgeArrays}

EdgeRequests == {1, 32765, 65529}

NextEdge ==
    \/ \E args \in EdgeInitArgs : inits < MaxInits /\ pool_init(args)
    \/ \E n \in EdgeRequests : pool_malloc(n)
    \/ \E l \in live : pool_free(l)

SpecEdge == Init /\ [][NextEdge]_vars

\* C19: every value held in a free-list head or a next_freelist_offset
\* field is the offset itself, at most 65535, never a wrapped one: 0 or the
\* payload offset of a block of the class (a freed pointer's own offset when
\* pool_free stores it); and the payload of every block, [offset, offset +
\* class_size), lies inside [0, HEAP_SIZE).
C19_OffsetsFitSixteenBits ==
    init_ok =>
        /\ \A i \in Classes :
              /\ FreeHead(i) \in Blocks(i) \cup {0}
              /\ \A b \in Blocks(i) :
                    /\ METADATA_LENGTH <= b /\ b <= UINT16_MAX
                    /\ b + ClassSize(i) <= HEAP_SIZE
                    /\ ReadNextFreelistOffset(g_pool_heap, b - METADATA_LENGTH)
                          \in Blocks(i) \cup {0}
        /\ (last.op = "malloc" /\ last.ok) => last.ptr \in UNION {Blocks(i) : i \in Classes}
        /\ last.op = "free" =>
              FreeHead(ReadPartitionNumber(g_pool_heap, last.ptr - METADATA_LENGTH)) = last.ptr

\* The one-byte block at offset HEAP_SIZE - 1 was freed and is the head of
\* its class.
C19_Witness ==
    /\ init_ok /\ last.op = "free" /\ last.ptr = HEAP_SIZE - 1
    /\ FreeHead(1) = UINT16_MAX
    /\ ClassSize(1) = 1

----------------------------------------------------------------------------
\* C20: before any call of pool_init, with all static state zero,
\* pool_malloc(n) returns NULL for every n and changes nothing; it returns
\* at its first test, ahead of every use of g_pool_heap_start, which is
\* still NULL.
C20_MallocBeforeInit ==
    [][(inits = 0 /\ last'.op = "malloc") =>
         /\ Globals = ZeroGlobals
         /\ RequestRejected(Globals, last'.n)
         /\ ~last'.ok /\ last'.ptr = 0
         /\ g_pool_heap' = g_pool_heap
         /\ freelist_head_arr' = freelist_head_arr
         /\ sorted_block_size_arr' = sorted_block_size_arr
         /\ block_size_count_var' = block_size_count_var
         /\ g_pool_heap_start' = FALSE]_vars

\* One byte was asked for before any pool_init and refused.
C20_Witness ==
    /\ inits = 0 /\ last.op = "malloc" /\ last.n = 1 /\ ~last.ok
    /\ ~g_pool_heap_start /\ g_pool_heap = Zeroed

====
